---- MODULE Spec2Model ----
(***************************************************************************)
(* A model of src/app3.py: the NBA player dashboard.                       *)
(*                                                                         *)
(*   get_player_id / get_team_id / get_team_abbreviation  (lines 9-30)     *)
(*   get_game_logs                                        (lines 33-62)    *)
(*   plot_combined_graphs                                 (lines 65-135)   *)
(*   the module-level script                              (lines 138-150)  *)
(*                                                                         *)
(* Strings are sequences of one-character strings, so that lower-casing    *)
(* and the substring test are computed and not assumed.  A DataFrame is    *)
(* the sequence of its rows, each row a record of its columns.  A Python   *)
(* value that may be None is a record [some, val].                         *)
(***************************************************************************)
EXTENDS Integers, Sequences, FiniteSets

VARIABLES
    players,            \* players.get_players(): the player directory
    teams,              \* teams.get_teams(): the team directory
    source,             \* which result sets PlayerGameLog can answer with
    player_name,        \* the player name (text input / argument)
    team_name,          \* the script's team_name text input
    arg_team,           \* get_game_logs: parameter team_name
    arg_seasons,        \* get_game_logs: parameter seasons
    arg_last_n,         \* get_game_logs: parameter last_n_games
    player_id,          \* get_game_logs: local player_id
    team_id,            \* get_game_logs: local team_id
    team_abbreviation,  \* get_game_logs: local team_abbreviation
    all_logs,           \* get_game_logs: local all_logs
    season_idx,         \* get_game_logs: position of the for loop
    fetched,            \* the data frames the run's requests returned
    requests,           \* the PlayerGameLog requests issued, in order
    warnings,           \* the st.warning calls, in order
    retval,             \* the value the last call returned
    last_15_df,         \* script global / plot parameter
    matchup_df,         \* script global / plot parameter
    sorted_last,        \* plot: last_15_df after its rebinding (line 79)
    sorted_matchup,     \* plot: matchup_df after its rebinding (line 118)
    means,              \* the mean() calls made: statistic, sum and count
    traces,             \* fig.add_trace calls, in order
    rendered,           \* st.plotly_chart was called
    pc,                 \* the position of the program
    ret                 \* where the running function returns to

vars == << players, teams, source, player_name, team_name, arg_team,
           arg_seasons, arg_last_n, player_id, team_id, team_abbreviation,
           all_logs, season_idx, fetched, requests, warnings, retval,
           last_15_df, matchup_df, sorted_last, sorted_matchup, means,
           traces, rendered, pc, ret >>

(***************************************************************************)
(* Bounds of the model.                                                    *)
(***************************************************************************)
MaxDir == 2        \* entries of a directory listing drawn for the resolvers
MaxFetched == 2    \* rows of a short result set of the game-log source
MaxSeasons == 2    \* length of a seasons argument of get_game_logs
MaxRows == 3       \* rows of a log handed directly to plot_combined_graphs
MaxExtra == 1      \* rows a long result set has beyond last_n_games

(***************************************************************************)
(* Python values.                                                          *)
(***************************************************************************)
None == [some |-> FALSE, val |-> <<>>]
NoneId == [some |-> FALSE, val |-> 0]
NoneStr == [some |-> FALSE, val |-> ""]
Some(x) == [some |-> TRUE, val |-> x]

\* bool(x) of an optional integer: None and 0 are falsy.
TruthyId(x) == x.some /\ x.val # 0
\* bool(x) of an optional string or list: None and the empty one are falsy.
TruthySeq(x) == x.some /\ Len(x.val) > 0

\* str.lower() on the characters of the model's alphabet.
LowerChar(c) ==
    CASE c = "A" -> "a"
      [] c = "B" -> "b"
      [] c = "C" -> "c"
      [] OTHER -> c

Lower(s) == [i \in 1..Len(s) |-> LowerChar(s[i])]

\* A test of the opponent field: the matchup ends with the abbreviation.
EndsWith(s, pat) ==
    /\ Len(s) >= Len(pat)
    /\ SubSeq(s, Len(s) - Len(pat) + 1, Len(s)) = pat

\* pandas str.contains(pat) for a pattern of letters: the substring test.
Contains(s, pat) ==
    \E i \in 1..(Len(s) - Len(pat) + 1) : SubSeq(s, i, i + Len(pat) - 1) = pat

RECURSIVE SeqSum(_)
SeqSum(s) == IF s = <<>> THEN 0 ELSE Head(s) + SeqSum(Tail(s))

\* The frames joined last first.
RECURSIVE ConcatReversed(_)
ConcatReversed(frames) ==
    IF frames = <<>> THEN <<>>
    ELSE ConcatReversed(Tail(frames)) \o Head(frames)

RECURSIVE Concat(_)
\* pd.concat(frames, ignore_index=True): the rows of the frames, in order.
Concat(frames) ==
    IF frames = <<>> THEN <<>> ELSE Head(frames) \o Concat(Tail(frames))

RECURSIVE Filter(_, _)
\* df[mask]: the rows the mask keeps, in the order of df.
Filter(df, abbr) ==
    IF df = <<>> THEN <<>>
    ELSE IF Contains(Head(df).MATCHUP, abbr)
         THEN <<Head(df)>> \o Filter(Tail(df), abbr)
         ELSE Filter(Tail(df), abbr)

\* head without the cut.
DfHeadAll(df, n) == df

\* df.head(n): the first n rows; for a negative n all but the last -n rows.
DfHead(df, n) ==
    IF n >= 0
    THEN SubSeq(df, 1, IF n < Len(df) THEN n ELSE Len(df))
    ELSE SubSeq(df, 1, IF Len(df) + n > 0 THEN Len(df) + n ELSE 0)

\* The sequences of length at most n over S, without repeated elements.
RECURSIVE DistinctSeqs(_, _)
DistinctSeqs(S, n) ==
    IF n = 0 THEN { <<>> }
    ELSE LET shorter == DistinctSeqs(S, n - 1)
             longest == { t \in shorter : Len(t) = n - 1 }
         IN shorter \cup
            { Append(p[1], p[2]) :
                p \in { q \in longest \X S :
                          \A i \in 1..Len(q[1]) : q[1][i] # q[2] } }

(***************************************************************************)
(* The external directory (nba_api.stats.static).                          *)
(***************************************************************************)
\* A players.get_players() listing with the given full names; ids are
\* positive and unique, as in the static data.
MkPlayers(names) ==
    [i \in 1..Len(names) |-> [id |-> 100 + i, full_name |-> names[i]]]

\* A teams.get_teams() listing with the given full names.
MkTeams(names) ==
    [i \in 1..Len(names) |->
        [id |-> 200 + i, full_name |-> names[i],
         abbreviation |-> <<"T">> \o names[i]]]

\* Full names the drawn directory listings are built from: two that differ
\* only in case, and one that is a prefix of them.
DirNames == { <<"A", "b">>, <<"a", "B">>, <<"a">>, <<"B", "c">> }

\* Names typed by the user.
InputNames == { <<"a", "b">>, <<"A", "B">>, <<"a">>, <<"b">>, <<"b", "C">>, <<>> }

PlayerDirs == { MkPlayers(n) : n \in DistinctSeqs(DirNames, MaxDir) }
TeamDirs == { MkTeams(n) : n \in DistinctSeqs(DirNames, MaxDir) }

BOS == <<"B", "O", "S">>
LAL == <<"L", "A", "L">>
NOP == <<"N", "O", "P">>

\* The directory of the runs of get_game_logs and of the script.
StaticPlayers ==
    << [id |-> 11, full_name |-> <<"A", "b">>],
       [id |-> 12, full_name |-> <<"a", "B">>],
       [id |-> 13, full_name |-> <<"C">>] >>

StaticTeams ==
    << [id |-> 21, full_name |-> <<"B", "c">>, abbreviation |-> BOS],
       [id |-> 22, full_name |-> <<"C", "a">>, abbreviation |-> LAL] >>

PlayerInputs == { <<"a", "b">>, <<"c">>, <<"A">>, <<>> }
TeamInputs == { <<"b", "C">>, <<"c", "a">>, <<"B">> }

(***************************************************************************)
(* Identity resolution, lines 9-30.                                        *)
(***************************************************************************)
\* get_player_id comparing the names as they are written.
RECURSIVE get_player_id_exact(_, _)
get_player_id_exact(player_list, name) ==
    IF player_list = <<>> THEN NoneId
    ELSE IF Head(player_list).full_name = name
         THEN Some(Head(player_list).id)
         ELSE get_player_id_exact(Tail(player_list), name)

RECURSIVE get_player_id(_, _)
get_player_id(player_list, name) ==
    IF player_list = <<>> THEN NoneId
    ELSE IF Lower(Head(player_list).full_name) = Lower(name)
         THEN Some(Head(player_list).id)
         ELSE get_player_id(Tail(player_list), name)

RECURSIVE get_team_id(_, _)
get_team_id(team_list, name) ==
    IF team_list = <<>> THEN NoneId
    ELSE IF Lower(Head(team_list).full_name) = Lower(name)
         THEN Some(Head(team_list).id)
         ELSE get_team_id(Tail(team_list), name)

RECURSIVE get_team_abbreviation(_, _)
get_team_abbreviation(team_list, id) ==
    IF team_list = <<>> THEN None
    ELSE IF Head(team_list).id = id
         THEN Some(Head(team_list).abbreviation)
         ELSE get_team_abbreviation(Tail(team_list), id)

(***************************************************************************)
(* The external game-log source (nba_api PlayerGameLog).                   *)
(***************************************************************************)
DefaultLastN == 15   \* get_game_logs: last_n_games=15
ScriptLastN == 15    \* the script's last_n_games=15

VS == <<" ", "v", "s", ".", " ">>
AT == <<" ", "@", " ">>

RawDate(mon, day, year) == [mon |-> mon, day |-> day, year |-> year]

G1 == [GAME_DATE |-> RawDate("APR", 1, 2024), MATCHUP |-> LAL \o VS \o BOS,
       PTS |-> 3, REB |-> 1, AST |-> 2]
G2 == [GAME_DATE |-> RawDate("JAN", 2, 2024), MATCHUP |-> LAL \o AT \o BOS,
       PTS |-> 1, REB |-> 1, AST |-> 0]
G3 == [GAME_DATE |-> RawDate("DEC", 25, 2023), MATCHUP |-> LAL \o AT \o NOP,
       PTS |-> 2, REB |-> 1, AST |-> 1]
G4 == [GAME_DATE |-> RawDate("NOV", 30, 2023), MATCHUP |-> LAL \o VS \o NOP,
       PTS |-> 2, REB |-> 4, AST |-> 0]

Games == { G1, G2, G3 }
PlotGames == { G1, G2, G3, G4 }

\* A season's log of n games, most recent first, one game a day.
LongLog(n) ==
    [i \in 1..n |->
        [GAME_DATE |-> RawDate("MAR", n + 1 - i, 2024),
         MATCHUP |-> IF i % 2 = 0 THEN LAL \o VS \o BOS ELSE LAL \o AT \o NOP,
         PTS |-> i % 4, REB |-> i % 3, AST |-> i % 2]]

ShortLogs == DistinctSeqs(Games, MaxFetched)
LongLogs == { LongLog(DefaultLastN + MaxExtra) }

\* What PlayerGameLog may answer in a run of get_game_logs alone.
FullSource == ShortLogs \cup LongLogs
\* What PlayerGameLog may answer in a run of the script.
ScriptSource == { <<>>, <<G1>>, <<G2>>, <<G3>>, <<G1, G3>> } \cup LongLogs

\* gamelog.get_data_frames()[0]: the result sets a request may be answered
\* with.
Answers == IF source = "script" THEN ScriptSource ELSE FullSource

last_three_seasons == << "2024-25", "2023-24", "2022-23" >>
SeasonLabels == { last_three_seasons[i] : i \in 1..Len(last_three_seasons) }

(***************************************************************************)
(* Dates: pd.to_datetime, sort_values and strftime.                        *)
(***************************************************************************)
MonthNum(mon) ==
    CASE mon = "JAN" -> 1
      [] mon = "MAR" -> 3
      [] mon = "APR" -> 4
      [] mon = "NOV" -> 11
      [] mon = "DEC" -> 12

MonthAbbr(m) ==
    CASE m = 1 -> "Jan"
      [] m = 3 -> "Mar"
      [] m = 4 -> "Apr"
      [] m = 11 -> "Nov"
      [] m = 12 -> "Dec"

\* pd.to_datetime of a "MON DD, YYYY" string: the calendar day, held as the
\* number yyyymmdd, whose order is the order of time.
ToDatetime(raw) ==
    [ymd |-> raw.year * 10000 + MonthNum(raw.mon) * 100 + raw.day]

\* dt.strftime('%b %d')
StrftimeBD(dt) ==
    [b |-> MonthAbbr((dt.ymd \div 100) % 100), d |-> dt.ymd % 100]

\* dt.strftime('%Y-%m-%d')
StrftimeYMD(dt) ==
    [Y |-> dt.ymd \div 10000, m |-> (dt.ymd \div 100) % 100,
     d |-> dt.ymd % 100]

\* df["GAME_DATE"] = pd.to_datetime(df["GAME_DATE"])
ConvertDates(df) ==
    [i \in 1..Len(df) |-> [df[i] EXCEPT !.GAME_DATE = ToDatetime(@)]]

\* s without its first occurrence of the row r.
RECURSIVE RemoveFirst(_, _)
RemoveFirst(s, r) ==
    IF s = <<>> THEN <<>>
    ELSE IF Head(s) = r THEN Tail(s)
         ELSE <<Head(s)>> \o RemoveFirst(Tail(s), r)

\* The rows left in the order they came in.
SortValuesUnsorted(df) == { df }

\* df.sort_values("GAME_DATE"): the default sort is not stable, so every
\* ascending arrangement of the rows is a possible outcome.
RECURSIVE SortValues(_)
SortValues(df) ==
    IF df = <<>> THEN { <<>> }
    ELSE LET least == { df[i] : i \in { k \in 1..Len(df) :
                          \A j \in 1..Len(df) :
                              df[k].GAME_DATE.ymd <= df[j].GAME_DATE.ymd } }
         IN UNION { { <<r>> \o rest :
                        rest \in UNION { SortValues(others) :
                                   others \in { RemoveFirst(df, r) } } }
                    : r \in least }

Column(df, c) == [i \in 1..Len(df) |-> df[i][c]]

\* Series.mean(): the sum over the count, kept as the pair of the two.  The
\* float64 quotient of two small integers differs from an integer value
\* exactly when the exact quotient does, so the comparison below is exact.
Mean(series) == [num |-> SeqSum(series), den |-> Len(series)]

\* value >= mean
AboveOrAtMean(value, mean) == value * mean.den >= mean.num

\* value > mean
AboveMean(value, mean) == value * mean.den > mean.num

\* ["above" if v > avg else "below" for v in series]
Colors(series, mean, above, below) ==
    [i \in 1..Len(series) |->
        IF AboveMean(series[i], mean) THEN above ELSE below]

\* df["Game Date"] = df["GAME_DATE"].dt.strftime('%b %d')
WithLabelBD(df) ==
    [i \in 1..Len(df) |->
        [GAME_DATE |-> df[i].GAME_DATE, MATCHUP |-> df[i].MATCHUP,
         PTS |-> df[i].PTS, REB |-> df[i].REB, AST |-> df[i].AST,
         Game_Date |-> StrftimeBD(df[i].GAME_DATE)]]

\* The composite without the assists.
WithPR(df) ==
    [i \in 1..Len(df) |->
        [GAME_DATE |-> df[i].GAME_DATE, MATCHUP |-> df[i].MATCHUP,
         PTS |-> df[i].PTS, REB |-> df[i].REB, AST |-> df[i].AST,
         PRA |-> df[i].PTS + df[i].REB,
         Game_Date |-> StrftimeYMD(df[i].GAME_DATE)]]

\* df["PRA"] = df["PTS"] + df["REB"] + df["AST"], then the '%Y-%m-%d' label
WithPRA(df) ==
    [i \in 1..Len(df) |->
        [GAME_DATE |-> df[i].GAME_DATE, MATCHUP |-> df[i].MATCHUP,
         PTS |-> df[i].PTS, REB |-> df[i].REB, AST |-> df[i].AST,
         PRA |-> df[i].PTS + df[i].REB + df[i].AST,
         Game_Date |-> StrftimeYMD(df[i].GAME_DATE)]]

\* The hover text of a bar: the statistics it shows.
HoverText(df) ==
    [i \in 1..Len(df) |-> [PTS |-> df[i].PTS, REB |-> df[i].REB, AST |-> df[i].AST]]

HoverTextPRA(df) ==
    [i \in 1..Len(df) |->
        [PTS |-> df[i].PTS, REB |-> df[i].REB, AST |-> df[i].AST,
         PRA |-> df[i].PRA]]

\* go.Bar(x=..., y=..., text=..., marker=dict(color=...)) at (row, col)
Bar(row, col, df, stat, text, color) ==
    [row |-> row, col |-> col, x |-> Column(df, "Game_Date"),
     y |-> Column(df, stat), text |-> text, color |-> color]

\* df is not None
IsNotNone(df) == df.some

\* df is not None and not df.empty
HasRows(df) == df.some /\ Len(df.val) > 0

(***************************************************************************)
(* get_game_logs, lines 33-62.                                             *)
(***************************************************************************)
Warning(kind, name) == [kind |-> kind, name |-> name]
Request(id, season) == [player_id |-> id, season |-> season]

\* lines 34-37 without the return: the warning is given and the call goes on.
GGL_ResolvePlayer_NoReturn ==
    /\ pc = "ggl_34"
    /\ LET id == get_player_id(players, player_name)
       IN /\ player_id' = id
          /\ IF ~TruthyId(id)
             THEN warnings' = Append(warnings, Warning("player", player_name))
             ELSE UNCHANGED warnings
    /\ pc' = "ggl_39"
    /\ UNCHANGED << players, teams, source, player_name, team_name, arg_team,
                    arg_seasons, arg_last_n, team_id, team_abbreviation,
                    all_logs, season_idx, fetched, requests, retval,
                    last_15_df, matchup_df, sorted_last, sorted_matchup,
                    means, traces, rendered, ret >>

\* lines 34-37
GGL_ResolvePlayer ==
    /\ pc = "ggl_34"
    /\ LET id == get_player_id(players, player_name)
       IN /\ player_id' = id
          /\ IF ~TruthyId(id)
             THEN /\ warnings' = Append(warnings, Warning("player", player_name))
                  /\ retval' = None
                  /\ pc' = ret
             ELSE /\ pc' = "ggl_39"
                  /\ UNCHANGED << warnings, retval >>
    /\ UNCHANGED << players, teams, source, player_name, team_name, arg_team,
                    arg_seasons, arg_last_n, team_id, team_abbreviation,
                    all_logs, season_idx, fetched, requests, last_15_df,
                    matchup_df, sorted_last, sorted_matchup, means, traces,
                    rendered, ret >>

\* lines 39-50
GGL_ResolveTeam ==
    /\ pc = "ggl_39"
    /\ IF TruthySeq(arg_team) /\ TruthySeq(arg_seasons)
       THEN LET id == get_team_id(teams, arg_team.val)
                abbr == get_team_abbreviation(teams, id.val)
            IN /\ team_id' = id
               /\ IF ~TruthyId(id)
                  THEN /\ warnings' = Append(warnings, Warning("team", arg_team.val))
                       /\ retval' = None
                       /\ pc' = ret
                       /\ UNCHANGED << team_abbreviation, all_logs, season_idx >>
                  ELSE /\ team_abbreviation' = abbr
                       /\ IF ~TruthySeq(abbr)
                          THEN /\ warnings' = Append(warnings,
                                       Warning("abbreviation", arg_team.val))
                               /\ retval' = None
                               /\ pc' = ret
                               /\ UNCHANGED << all_logs, season_idx >>
                          ELSE /\ all_logs' = <<>>
                               /\ season_idx' = 1
                               /\ pc' = "ggl_51"
                               /\ UNCHANGED << warnings, retval >>
       ELSE /\ pc' = "ggl_60"
            /\ UNCHANGED << team_id, team_abbreviation, all_logs, season_idx,
                            warnings, retval >>
    /\ UNCHANGED << players, teams, source, player_name, team_name, arg_team,
                    arg_seasons, arg_last_n, player_id, fetched, requests,
                    last_15_df, matchup_df, sorted_last, sorted_matchup,
                    means, traces, rendered, ret >>

\* lines 51-55: one iteration of the loop over seasons
GGL_FetchSeason ==
    /\ pc = "ggl_51"
    /\ season_idx <= Len(arg_seasons.val)
    /\ \E df \in Answers :
         /\ requests' = Append(requests,
               Request(player_id.val, Some(arg_seasons.val[season_idx])))
         /\ fetched' = Append(fetched, df)
         /\ all_logs' = Append(all_logs, Filter(df, team_abbreviation.val))
    /\ season_idx' = season_idx + 1
    /\ UNCHANGED << players, teams, source, player_name, team_name, arg_team,
                    arg_seasons, arg_last_n, player_id, team_id,
                    team_abbreviation, warnings, retval, last_15_df,
                    matchup_df, sorted_last, sorted_matchup, means, traces,
                    rendered, pc, ret >>

\* line 57
GGL_ReturnConcat ==
    /\ pc = "ggl_51"
    /\ season_idx > Len(arg_seasons.val)
    /\ retval' = IF all_logs # <<>> THEN Some(Concat(all_logs)) ELSE None
    /\ pc' = ret
    /\ UNCHANGED << players, teams, source, player_name, team_name, arg_team,
                    arg_seasons, arg_last_n, player_id, team_id,
                    team_abbreviation, all_logs, season_idx, fetched,
                    requests, warnings, last_15_df, matchup_df, sorted_last,
                    sorted_matchup, means, traces, rendered, ret >>

\* lines 60-62
GGL_FetchLastN ==
    /\ pc = "ggl_60"
    /\ \E df \in Answers :
         /\ requests' = Append(requests, Request(player_id.val, NoneStr))
         /\ fetched' = Append(fetched, df)
         /\ retval' = Some(DfHead(df, arg_last_n))
    /\ pc' = ret
    /\ UNCHANGED << players, teams, source, player_name, team_name, arg_team,
                    arg_seasons, arg_last_n, player_id, team_id,
                    team_abbreviation, all_logs, season_idx, warnings,
                    last_15_df, matchup_df, sorted_last, sorted_matchup,
                    means, traces, rendered, ret >>

(***************************************************************************)
(* plot_combined_graphs, lines 65-135.                                     *)
(***************************************************************************)
MeanCall(stat, mean) == [stat |-> stat, num |-> mean.num, den |-> mean.den]

\* lines 66-75
Plot_MakeFigure ==
    /\ pc = "plot_66"
    /\ traces' = <<>>
    /\ pc' = "plot_77"
    /\ UNCHANGED << players, teams, source, player_name, team_name, arg_team,
                    arg_seasons, arg_last_n, player_id, team_id,
                    team_abbreviation, all_logs, season_idx, fetched,
                    requests, warnings, retval, last_15_df, matchup_df,
                    sorted_last, sorted_matchup, means, rendered, ret >>

\* lines 77-114; PTS, REB and AST arrive as integers, which pd.to_numeric
\* (line 80) leaves as they are.  The frame and the means are computed once
\* and bound, as the code binds them to df and avg_*.
Plot_Last15 ==
    /\ pc = "plot_77"
    /\ IF HasRows(last_15_df)
       THEN LET converted == ConvertDates(last_15_df.val)
            IN \E sorted \in SortValues(converted) :
               \E df \in { WithLabelBD(sorted) } :
               \E avg_pts \in { Mean(Column(df, "PTS")) },
                  avg_reb \in { Mean(Column(df, "REB")) },
                  avg_ast \in { Mean(Column(df, "AST")) } :
                 LET colors_pts == Colors(Column(df, "PTS"), avg_pts,
                                          "#4CAF50", "#2196F3")
                     colors_reb == Colors(Column(df, "REB"), avg_reb,
                                          "#FFA726", "#FFEB3B")
                     colors_ast == Colors(Column(df, "AST"), avg_ast,
                                          "#AB47BC", "#9575CD")
                 IN /\ last_15_df' = Some(converted)
                    /\ sorted_last' = Some(df)
                    /\ means' = means \o << MeanCall("PTS", avg_pts),
                                            MeanCall("REB", avg_reb),
                                            MeanCall("AST", avg_ast) >>
                    /\ traces' = traces \o
                         << Bar(1, 1, df, "PTS", HoverText(df), colors_pts),
                            Bar(1, 2, df, "REB", HoverText(df), colors_reb),
                            Bar(2, 1, df, "AST", HoverText(df), colors_ast) >>
       ELSE UNCHANGED << last_15_df, sorted_last, means, traces >>
    /\ pc' = "plot_116"
    /\ UNCHANGED << players, teams, source, player_name, team_name, arg_team,
                    arg_seasons, arg_last_n, player_id, team_id,
                    team_abbreviation, all_logs, season_idx, fetched,
                    requests, warnings, retval, matchup_df, sorted_matchup,
                    rendered, ret >>

\* lines 116-132
Plot_Matchup ==
    /\ pc = "plot_116"
    /\ IF HasRows(matchup_df)
       THEN LET converted == ConvertDates(matchup_df.val)
            IN \E sorted \in SortValues(converted) :
               \E df \in { WithPRA(sorted) } :
               \E avg_pra \in { Mean(Column(df, "PRA")) } :
                 LET colors_pra == Colors(Column(df, "PRA"), avg_pra,
                                          "#FF3D00", "#FF8A65")
                 IN /\ matchup_df' = Some(converted)
                    /\ sorted_matchup' = Some(df)
                    /\ means' = Append(means, MeanCall("PRA", avg_pra))
                    /\ traces' = Append(traces,
                          Bar(2, 2, df, "PRA", HoverTextPRA(df), colors_pra))
       ELSE UNCHANGED << matchup_df, sorted_matchup, means, traces >>
    /\ pc' = "plot_134"
    /\ UNCHANGED << players, teams, source, player_name, team_name, arg_team,
                    arg_seasons, arg_last_n, player_id, team_id,
                    team_abbreviation, all_logs, season_idx, fetched,
                    requests, warnings, retval, last_15_df, sorted_last,
                    rendered, ret >>

\* lines 134-135
Plot_Render ==
    /\ pc = "plot_134"
    /\ rendered' = TRUE
    /\ pc' = ret
    /\ UNCHANGED << players, teams, source, player_name, team_name, arg_team,
                    arg_seasons, arg_last_n, player_id, team_id,
                    team_abbreviation, all_logs, season_idx, fetched,
                    requests, warnings, retval, last_15_df, matchup_df,
                    sorted_last, sorted_matchup, means, traces, ret >>

(***************************************************************************)
(* The script, lines 138-150.                                              *)
(***************************************************************************)
\* line 143: the call get_game_logs(player_name, last_n_games=15)
Script_CallLast15 ==
    /\ pc = "L143"
    /\ arg_team' = None
    /\ arg_seasons' = None
    /\ arg_last_n' = ScriptLastN
    /\ pc' = "ggl_34"
    /\ ret' = "L143r"
    /\ UNCHANGED << players, teams, source, player_name, team_name,
                    player_id, team_id, team_abbreviation, all_logs,
                    season_idx, fetched, requests, warnings, retval,
                    last_15_df, matchup_df, sorted_last, sorted_matchup,
                    means, traces, rendered >>

\* lines 143-144: last_15_df = <the value returned>; matchup_df = None
Script_AssignLast15 ==
    /\ pc = "L143r"
    /\ last_15_df' = retval
    /\ matchup_df' = None
    /\ pc' = "L145"
    /\ UNCHANGED << players, teams, source, player_name, team_name, arg_team,
                    arg_seasons, arg_last_n, player_id, team_id,
                    team_abbreviation, all_logs, season_idx, fetched,
                    requests, warnings, retval, sorted_last, sorted_matchup,
                    means, traces, rendered, ret >>

\* lines 145-147: the call get_game_logs(player_name, team_name, seasons)
Script_CallMatchup ==
    /\ pc = "L145"
    /\ Len(team_name) > 0
    /\ arg_team' = Some(team_name)
    /\ arg_seasons' = Some(last_three_seasons)
    /\ arg_last_n' = DefaultLastN
    /\ pc' = "ggl_34"
    /\ ret' = "L147r"
    /\ UNCHANGED << players, teams, source, player_name, team_name,
                    player_id, team_id, team_abbreviation, all_logs,
                    season_idx, fetched, requests, warnings, retval,
                    last_15_df, matchup_df, sorted_last, sorted_matchup,
                    means, traces, rendered >>

\* line 145: team_name is empty
Script_SkipMatchup ==
    /\ pc = "L145"
    /\ Len(team_name) = 0
    /\ pc' = "L149"
    /\ UNCHANGED << players, teams, source, player_name, team_name, arg_team,
                    arg_seasons, arg_last_n, player_id, team_id,
                    team_abbreviation, all_logs, season_idx, fetched,
                    requests, warnings, retval, last_15_df, matchup_df,
                    sorted_last, sorted_matchup, means, traces, rendered,
                    ret >>

\* line 147: matchup_df = <the value returned>
Script_AssignMatchup ==
    /\ pc = "L147r"
    /\ matchup_df' = retval
    /\ pc' = "L149"
    /\ UNCHANGED << players, teams, source, player_name, team_name, arg_team,
                    arg_seasons, arg_last_n, player_id, team_id,
                    team_abbreviation, all_logs, season_idx, fetched,
                    requests, warnings, retval, last_15_df, sorted_last,
                    sorted_matchup, means, traces, rendered, ret >>

\* last_15_df is not None and matchup_df is not None
ShouldPlotBoth == last_15_df.some /\ matchup_df.some

\* line 149: last_15_df is not None or matchup_df is not None
ShouldPlot == last_15_df.some \/ matchup_df.some

\* lines 149-150
Script_Plot ==
    /\ pc = "L149"
    /\ IF ShouldPlot
       THEN /\ pc' = "plot_66"
            /\ ret' = "done"
       ELSE /\ pc' = "done"
            /\ UNCHANGED ret
    /\ UNCHANGED << players, teams, source, player_name, team_name, arg_team,
                    arg_seasons, arg_last_n, player_id, team_id,
                    team_abbreviation, all_logs, season_idx, fetched,
                    requests, warnings, retval, last_15_df, matchup_df,
                    sorted_last, sorted_matchup, means, traces, rendered >>

(***************************************************************************)
(* The resolvers called on their own, lines 9-30.                          *)
(***************************************************************************)
Call_get_player_id ==
    /\ pc = "resolve_player"
    /\ player_id' = get_player_id(players, player_name)
    /\ pc' = "resolve_team"
    /\ UNCHANGED << players, teams, source, player_name, team_name, arg_team,
                    arg_seasons, arg_last_n, team_id, team_abbreviation,
                    all_logs, season_idx, fetched, requests, warnings,
                    retval, last_15_df, matchup_df, sorted_last,
                    sorted_matchup, means, traces, rendered, ret >>

Call_get_team_id ==
    /\ pc = "resolve_team"
    /\ team_id' = get_team_id(teams, team_name)
    /\ pc' = "resolve_abbr"
    /\ UNCHANGED << players, teams, source, player_name, team_name, arg_team,
                    arg_seasons, arg_last_n, player_id, team_abbreviation,
                    all_logs, season_idx, fetched, requests, warnings,
                    retval, last_15_df, matchup_df, sorted_last,
                    sorted_matchup, means, traces, rendered, ret >>

Call_get_team_abbreviation ==
    /\ pc = "resolve_abbr"
    /\ team_id.some
    /\ team_abbreviation' = get_team_abbreviation(teams, team_id.val)
    /\ pc' = "done"
    /\ UNCHANGED << players, teams, source, player_name, team_name, arg_team,
                    arg_seasons, arg_last_n, player_id, team_id, all_logs,
                    season_idx, fetched, requests, warnings, retval,
                    last_15_df, matchup_df, sorted_last, sorted_matchup,
                    means, traces, rendered, ret >>

(***************************************************************************)
(* Specifications.                                                         *)
(***************************************************************************)
\* Nothing has been called, fetched, warned about or drawn.
Fresh ==
    /\ player_id = NoneId
    /\ team_id = NoneId
    /\ team_abbreviation = None
    /\ all_logs = <<>>
    /\ season_idx = 1
    /\ fetched = <<>>
    /\ requests = <<>>
    /\ warnings = <<>>
    /\ retval = None
    /\ sorted_last = None
    /\ sorted_matchup = None
    /\ means = <<>>
    /\ traces = <<>>
    /\ rendered = FALSE

\* A run of the script: the two text inputs are what the user typed.
Init ==
    /\ players = StaticPlayers
    /\ teams = StaticTeams
    /\ source = "script"
    /\ player_name \in PlayerInputs
    /\ team_name \in { <<>> } \cup TeamInputs
    /\ arg_team = None
    /\ arg_seasons = None
    /\ arg_last_n = DefaultLastN
    /\ last_15_df = None
    /\ matchup_df = None
    /\ Fresh
    /\ pc = "L143"
    /\ ret = "done"

GetGameLogs ==
    \/ GGL_ResolvePlayer
    \/ GGL_ResolveTeam
    \/ GGL_FetchSeason
    \/ GGL_ReturnConcat
    \/ GGL_FetchLastN

Plot ==
    \/ Plot_MakeFigure
    \/ Plot_Last15
    \/ Plot_Matchup
    \/ Plot_Render

Next ==
    \/ Script_CallLast15
    \/ Script_AssignLast15
    \/ Script_CallMatchup
    \/ Script_SkipMatchup
    \/ Script_AssignMatchup
    \/ Script_Plot
    \/ GetGameLogs
    \/ Plot

Spec == Init /\ [][Next]_vars

\* The script is one sequential process: a step that can be taken is taken.
LiveSpec == Init /\ [][Next]_vars /\ WF_vars(Next)

\* One call of get_game_logs with any arguments.
InitGetGameLogs ==
    /\ players = StaticPlayers
    /\ teams = StaticTeams
    /\ source = "any"
    /\ player_name \in PlayerInputs
    /\ team_name = <<>>
    /\ arg_team \in { None, Some(<<>>) } \cup { Some(t) : t \in TeamInputs }
    /\ arg_seasons \in { None } \cup
                       { Some(s) : s \in DistinctSeqs(SeasonLabels, MaxSeasons) }
    /\ arg_last_n \in { 1, DefaultLastN }
    /\ last_15_df = None
    /\ matchup_df = None
    /\ Fresh
    /\ pc = "ggl_34"
    /\ ret = "done"

SpecGetGameLogs == InitGetGameLogs /\ [][GetGameLogs]_vars

\* One call of plot_combined_graphs with any two logs.
PlotLogs == { None } \cup { Some(l) : l \in DistinctSeqs(PlotGames, MaxRows) }

InitPlot ==
    /\ players = StaticPlayers
    /\ teams = StaticTeams
    /\ source = "any"
    /\ player_name = <<"a", "b">>
    /\ team_name = <<>>
    /\ arg_team = None
    /\ arg_seasons = None
    /\ arg_last_n = DefaultLastN
    /\ last_15_df \in PlotLogs
    /\ matchup_df \in PlotLogs
    /\ Fresh
    /\ pc = "plot_66"
    /\ ret = "done"

SpecPlot == InitPlot /\ [][Plot]_vars

\* The resolvers on any directory listing and any name.
InitResolve ==
    /\ players \in PlayerDirs
    /\ teams \in TeamDirs
    /\ source = "any"
    /\ player_name \in InputNames
    /\ team_name \in InputNames
    /\ arg_team = None
    /\ arg_seasons = None
    /\ arg_last_n = DefaultLastN
    /\ last_15_df = None
    /\ matchup_df = None
    /\ Fresh
    /\ pc = "resolve_player"
    /\ ret = "done"

Resolve ==
    \/ Call_get_player_id
    \/ Call_get_team_id
    \/ Call_get_team_abbreviation

SpecResolve == InitResolve /\ [][Resolve]_vars

(***************************************************************************)
(* What the claims speak of, stated without the operators of the code.     *)
(***************************************************************************)
\* Two names are equal when both are lower-cased.
SameIgnoringCase(a, b) ==
    /\ Len(a) = Len(b)
    /\ \A i \in 1..Len(a) :
         \/ a[i] = b[i]
         \/ { a[i], b[i] } \in { { "a", "A" }, { "b", "B" }, { "c", "C" } }

\* The positions of the directory entries whose full name is the name.
Matches(directory, name) ==
    { i \in 1..Len(directory) : SameIgnoringCase(directory[i].full_name, name) }

Least(S) == CHOOSE i \in S : \A j \in S : i <= j

\* The directory entry the name stands for.
Entry(directory, name) == directory[Least(Matches(directory, name))]

PlayerResolves == Matches(players, player_name) # {}
TeamGiven == arg_team.some /\ arg_team.val # <<>>
SeasonsGiven == arg_seasons.some /\ arg_seasons.val # <<>>
TeamResolves == TeamGiven /\ Matches(teams, arg_team.val) # {}

\* pat occurs in s, read from its characters.
IsSubstring(pat, s) ==
    \E k \in 0..(Len(s) - Len(pat)) :
        \A i \in 1..Len(pat) : s[k + i] = pat[i]

\* The rows of the frames, in order, joined from the last frame backwards.
RECURSIVE Flatten(_)
Flatten(frames) ==
    IF Len(frames) = 0 THEN <<>>
    ELSE Flatten(SubSeq(frames, 1, Len(frames) - 1)) \o frames[Len(frames)]

\* The number of times x occurs in s.
RECURSIVE Count(_, _)
Count(x, s) ==
    IF s = <<>> THEN 0
    ELSE (IF Head(s) = x THEN 1 ELSE 0) + Count(x, Tail(s))

IsPermutation(s, t) ==
    /\ Len(s) = Len(t)
    /\ \A i \in 1..Len(s) : Count(s[i], s) = Count(s[i], t)

(***************************************************************************)
(* C1: get_player_id returns the id of the first directory entry whose     *)
(* full name equals the input name when both are lower-cased, and None     *)
(* when no entry matches in that way; get_team_id does the same over the   *)
(* team directory.  No partial match yields an id.                         *)
(***************************************************************************)
C1_Resolvers ==
    /\ pc \in { "resolve_team", "resolve_abbr", "done" } =>
         IF Matches(players, player_name) = {}
         THEN ~player_id.some
         ELSE /\ player_id.some
              /\ player_id.val = Entry(players, player_name).id
    /\ pc \in { "resolve_abbr", "done" } =>
         IF Matches(teams, team_name) = {}
         THEN ~team_id.some
         ELSE /\ team_id.some
              /\ team_id.val = Entry(teams, team_name).id

\* A name written in another case than the two entries it matches gets the
\* id of the first of them, and a team name that is only the beginning of
\* an entry's name gets None.
C1_Witness ==
    /\ pc = "resolve_abbr"
    /\ Cardinality(Matches(players, player_name)) = 2
    /\ \A i \in 1..Len(players) : players[i].full_name # player_name
    /\ player_id = Some(players[1].id)
    /\ team_name # <<>>
    /\ \E i \in 1..Len(teams) :
         /\ Len(teams[i].full_name) > Len(team_name)
         /\ SameIgnoringCase(SubSeq(teams[i].full_name, 1, Len(team_name)),
                             team_name)
    /\ ~team_id.some

(***************************************************************************)
(* C2: in a call of get_game_logs, if the player name matches no directory *)
(* entry, or a team name is given together with seasons and matches no     *)
(* directory entry, the call warns, returns None and issues no fetch.      *)
(***************************************************************************)
LookupFails ==
    \/ ~PlayerResolves
    \/ TeamGiven /\ SeasonsGiven /\ ~TeamResolves

C2_NotFoundShortCircuits ==
    LookupFails =>
        /\ requests = <<>>
        /\ fetched = <<>>
        /\ pc = "done" =>
             /\ ~retval.some
             /\ Len(warnings) = 1
             /\ warnings[1] = IF ~PlayerResolves
                              THEN Warning("player", player_name)
                              ELSE Warning("team", arg_team.val)

\* The player is found, the team is not: the call has returned None.
C2_Witness ==
    /\ pc = "done"
    /\ PlayerResolves
    /\ TeamGiven /\ SeasonsGiven /\ ~TeamResolves
    /\ warnings = << Warning("team", arg_team.val) >>
    /\ ~retval.some
    /\ requests = <<>>

(***************************************************************************)
(* C3, as claimed: for a resolvable player and a team name that resolves,  *)
(* whatever the seasons argument is, every record of the returned log has  *)
(* a matchup that contains the team's abbreviation, and every fetched      *)
(* record whose matchup contains it is in the returned log.                *)
(***************************************************************************)
OpponentFiltered ==
    LET abbr == Entry(teams, arg_team.val).abbreviation
        rows == Flatten(fetched)
    IN /\ retval.some
       /\ \A i \in 1..Len(retval.val) : IsSubstring(abbr, retval.val[i].MATCHUP)
       /\ \A i \in 1..Len(rows) :
            IsSubstring(abbr, rows[i].MATCHUP) =>
                \E j \in 1..Len(retval.val) : retval.val[j] = rows[i]

C3_AnySeasons ==
    (pc = "done" /\ PlayerResolves /\ TeamResolves) => OpponentFiltered

(***************************************************************************)
(* C3, amended: the same for a seasons argument that is a non-empty list.  *)
(* With an empty or absent seasons argument the team name is not used.     *)
(***************************************************************************)
C3_WithSeasons ==
    (pc = "done" /\ PlayerResolves /\ TeamResolves /\ SeasonsGiven) =>
        OpponentFiltered

\* A record was kept whose matchup contains the abbreviation elsewhere than
\* at its end, where the opponent stands.
C3_Witness ==
    /\ pc = "done"
    /\ PlayerResolves /\ TeamResolves /\ SeasonsGiven
    /\ retval.some
    /\ Len(retval.val) >= 1
    /\ \E i \in 1..Len(retval.val) :
         ~EndsWith(retval.val[i].MATCHUP, Entry(teams, arg_team.val).abbreviation)

(***************************************************************************)
(* C4: for a resolvable player and team and a non-empty sequence of        *)
(* seasons, get_game_logs issues one fetch per season, in the order given, *)
(* and returns the matching records of the seasons in that order, each     *)
(* season's in the order they were fetched in.                             *)
(***************************************************************************)
C4_SeasonOrder ==
    (pc = "done" /\ PlayerResolves /\ TeamResolves /\ SeasonsGiven) =>
        LET abbr == Entry(teams, arg_team.val).abbreviation
            Matching(row) == IsSubstring(abbr, row.MATCHUP)
        IN /\ Len(requests) = Len(arg_seasons.val)
           /\ \A i \in 1..Len(requests) :
                /\ requests[i].player_id = Entry(players, player_name).id
                /\ requests[i].season = Some(arg_seasons.val[i])
           /\ Len(fetched) = Len(requests)
           /\ retval.some
           /\ retval.val = SelectSeq(Flatten(fetched), Matching)

\* Two seasons, each with a matching record, the first season's first, and
\* a record that did not match.
C4_Witness ==
    /\ pc = "done"
    /\ PlayerResolves /\ TeamResolves
    /\ arg_seasons.some /\ Len(arg_seasons.val) = 2
    /\ Len(fetched) = 2
    /\ retval.some /\ Len(retval.val) = 2
    /\ retval.val[1] # retval.val[2]
    /\ \E i \in 1..Len(fetched[1]) : fetched[1][i] = retval.val[1]
    /\ \E i \in 1..Len(fetched[2]) : fetched[2][i] = retval.val[2]
    /\ \A i \in 1..Len(fetched[2]) : fetched[2][i] # retval.val[1]
    /\ Len(Flatten(fetched)) > 2

(***************************************************************************)
(* The figure, read from the traces handed to it.                          *)
(***************************************************************************)
NonEmpty(df) == df.some /\ df.val # <<>>

IsLast15Trace(t) == << t.row, t.col >> \in { <<1, 1>>, <<1, 2>>, <<2, 1>> }
IsPRATrace(t) == << t.row, t.col >> = <<2, 2>>

Last15Traces == SelectSeq(traces, IsLast15Trace)
PRATraces == SelectSeq(traces, IsPRATrace)

\* The columns of a row that the source gave.
Core(df) ==
    [i \in 1..Len(df) |->
        << df[i].GAME_DATE, df[i].MATCHUP, df[i].PTS, df[i].REB, df[i].AST >>]

Ascending(df) ==
    \A i \in 1..Len(df) : \A j \in i..Len(df) :
        df[i].GAME_DATE.ymd <= df[j].GAME_DATE.ymd

\* The sum over j <= k of y[i] - y[j]: positive for k = Len(y) exactly when
\* y[i] is greater than the arithmetic mean of y.
RECURSIVE Excess(_, _, _)
Excess(y, i, k) == IF k = 0 THEN 0 ELSE (y[i] - y[k]) + Excess(y, i, k - 1)

PlotHasRun(label) ==
    CASE label = "plot_77" -> pc \in { "plot_116", "plot_134", "done" }
      [] label = "plot_116" -> pc \in { "plot_134", "done" }

(***************************************************************************)
(* C5: in plot_combined_graphs, for every record of a non-empty matchup    *)
(* log the PRA value in the PRA series equals points + rebounds + assists  *)
(* of that same record, and the series has one PRA value per record.       *)
(***************************************************************************)
C5_PRA ==
    (PlotHasRun("plot_116") /\ NonEmpty(matchup_df)) =>
        /\ Len(PRATraces) = 1
        /\ LET t == PRATraces[1]
               shown == [i \in 1..Len(t.y) |->
                           << t.x[i].Y * 10000 + t.x[i].m * 100 + t.x[i].d,
                              t.text[i].PTS, t.text[i].REB, t.text[i].AST >>]
               given == [i \in 1..Len(matchup_df.val) |->
                           << matchup_df.val[i].GAME_DATE.ymd,
                              matchup_df.val[i].PTS, matchup_df.val[i].REB,
                              matchup_df.val[i].AST >>]
           IN /\ Len(t.y) = Len(matchup_df.val)
              /\ Len(t.x) = Len(t.y)
              /\ Len(t.text) = Len(t.y)
              /\ \A i \in 1..Len(t.y) :
                   /\ t.y[i] = t.text[i].PTS + t.text[i].REB + t.text[i].AST
                   /\ t.text[i].PRA = t.y[i]
              /\ IsPermutation(shown, given)

\* Three records that the sort moved, each with assists.
C5_Witness ==
    /\ pc = "done"
    /\ NonEmpty(matchup_df)
    /\ Len(matchup_df.val) = 3
    /\ Core(sorted_matchup.val) # Core(matchup_df.val)
    /\ Len(PRATraces) = 1
    /\ \E i \in 1..3 : PRATraces[1].text[i].AST > 0

(***************************************************************************)
(* C6: in each of the four series the bar of a record has the 'above'      *)
(* colour exactly when the record's value is strictly greater than the     *)
(* arithmetic mean of the series; a value equal to the mean has the        *)
(* 'below' colour, and so has every bar of a series of equal values.       *)
(***************************************************************************)
AboveColour(t) ==
    CASE << t.row, t.col >> = <<1, 1>> -> "#4CAF50"
      [] << t.row, t.col >> = <<1, 2>> -> "#FFA726"
      [] << t.row, t.col >> = <<2, 1>> -> "#AB47BC"
      [] << t.row, t.col >> = <<2, 2>> -> "#FF3D00"

BelowColour(t) ==
    CASE << t.row, t.col >> = <<1, 1>> -> "#2196F3"
      [] << t.row, t.col >> = <<1, 2>> -> "#FFEB3B"
      [] << t.row, t.col >> = <<2, 1>> -> "#9575CD"
      [] << t.row, t.col >> = <<2, 2>> -> "#FF8A65"

C6_Colours ==
    \A k \in 1..Len(traces) :
        LET t == traces[k]
        IN /\ Len(t.color) = Len(t.y)
           /\ \A i \in 1..Len(t.y) :
                t.color[i] = IF Excess(t.y, i, Len(t.y)) > 0
                             THEN AboveColour(t) ELSE BelowColour(t)
           /\ (\A i, j \in 1..Len(t.y) : t.y[i] = t.y[j]) =>
                 \A i \in 1..Len(t.y) : t.color[i] = BelowColour(t)

\* A series of unequal values with a bar above the mean and a bar at the
\* mean, and a series of equal values.
C6_Witness ==
    /\ pc = "done"
    /\ \E k \in 1..Len(traces) :
         LET t == traces[k]
         IN /\ \E i \in 1..Len(t.y) :
                 /\ Excess(t.y, i, Len(t.y)) = 0
                 /\ t.color[i] = BelowColour(t)
            /\ \E i \in 1..Len(t.y) : t.color[i] = AboveColour(t)
    /\ \E k \in 1..Len(traces) :
         LET t == traces[k]
         IN /\ Len(t.y) >= 2
            /\ \A i \in 1..Len(t.y) : t.color[i] = BelowColour(t)

(***************************************************************************)
(* C7: a mean is never taken over zero records: for each of the two logs,  *)
(* if it is None or empty no mean is taken and no bar trace is added for   *)
(* its panels, and the function still completes and renders the figure;    *)
(* the traces of a log are added only when it has a record.                *)
(***************************************************************************)
MeansOf(stats) == { k \in 1..Len(means) : means[k].stat \in stats }

C7_NoMeanOfNothing ==
    /\ \A k \in 1..Len(means) : means[k].den > 0
    /\ PlotHasRun("plot_77") =>
         IF NonEmpty(last_15_df)
         THEN /\ Len(Last15Traces) = 3
              /\ Cardinality(MeansOf({ "PTS", "REB", "AST" })) = 3
              /\ \A k \in MeansOf({ "PTS", "REB", "AST" }) :
                   means[k].den = Len(last_15_df.val)
         ELSE /\ Len(Last15Traces) = 0
              /\ MeansOf({ "PTS", "REB", "AST" }) = {}
    /\ PlotHasRun("plot_116") =>
         IF NonEmpty(matchup_df)
         THEN /\ Len(PRATraces) = 1
              /\ Cardinality(MeansOf({ "PRA" })) = 1
              /\ \A k \in MeansOf({ "PRA" }) :
                   means[k].den = Len(matchup_df.val)
         ELSE /\ Len(PRATraces) = 0
              /\ MeansOf({ "PRA" }) = {}
    /\ pc = "done" => rendered
    /\ pc # "done" => ENABLED Plot

\* An empty last-games log beside a matchup log with records: the figure
\* is rendered with the PRA bars alone.
C7_Witness ==
    /\ pc = "done"
    /\ rendered
    /\ last_15_df = Some(<<>>)
    /\ NonEmpty(matchup_df)
    /\ Len(traces) = 1
    /\ Len(means) = 1

(***************************************************************************)
(* C9: whatever the order of the records of the logs handed to             *)
(* plot_combined_graphs, every series handed to the renderer is in         *)
(* non-decreasing game-date order and is a permutation of the records of   *)
(* its input log.                                                          *)
(***************************************************************************)
SeriesOf(t, df, stat) ==
    /\ Len(t.y) = Len(df)
    /\ Len(t.x) = Len(df)
    /\ Len(t.text) = Len(df)
    /\ \A i \in 1..Len(df) :
         /\ t.y[i] = df[i][stat]
         /\ t.x[i] = df[i].Game_Date
         /\ t.text[i].PTS = df[i].PTS
         /\ t.text[i].REB = df[i].REB
         /\ t.text[i].AST = df[i].AST

C9_Chronological ==
    /\ (PlotHasRun("plot_77") /\ NonEmpty(last_15_df)) =>
         /\ sorted_last.some
         /\ Ascending(sorted_last.val)
         /\ IsPermutation(Core(sorted_last.val), Core(last_15_df.val))
         /\ Len(Last15Traces) = 3
         /\ SeriesOf(Last15Traces[1], sorted_last.val, "PTS")
         /\ SeriesOf(Last15Traces[2], sorted_last.val, "REB")
         /\ SeriesOf(Last15Traces[3], sorted_last.val, "AST")
    /\ (PlotHasRun("plot_116") /\ NonEmpty(matchup_df)) =>
         /\ sorted_matchup.some
         /\ Ascending(sorted_matchup.val)
         /\ IsPermutation(Core(sorted_matchup.val), Core(matchup_df.val))
         /\ Len(PRATraces) = 1
         /\ SeriesOf(PRATraces[1], sorted_matchup.val, "PRA")

\* A last-games log given most recent first and a matchup log in no order.
C9_Witness ==
    /\ pc = "done"
    /\ NonEmpty(last_15_df) /\ Len(last_15_df.val) = 3
    /\ \A i \in 1..2 :
         last_15_df.val[i].GAME_DATE.ymd > last_15_df.val[i + 1].GAME_DATE.ymd
    /\ NonEmpty(matchup_df) /\ Len(matchup_df.val) = 3
    /\ matchup_df.val[1].GAME_DATE.ymd < matchup_df.val[2].GAME_DATE.ymd
    /\ matchup_df.val[2].GAME_DATE.ymd > matchup_df.val[3].GAME_DATE.ymd
    /\ Ascending(sorted_last.val)
    /\ Ascending(sorted_matchup.val)

(***************************************************************************)
(* C8, as claimed: every run of the script reaches its end; if the player  *)
(* resolves but the opponent team name does not, the figure is rendered    *)
(* with the three last-games panels and without the PRA panel; if the      *)
(* player does not resolve, both logs are None and no figure is rendered;  *)
(* the figure is rendered exactly when one of the two logs is not None.    *)
(* Stated of the runs that have reached their end, which a finite run      *)
(* refutes.                                                                *)
(***************************************************************************)
OpponentResolves == Matches(teams, team_name) # {}
\* An opponent was typed and the team directory has no such name.
OpponentNotFound == team_name # <<>> /\ ~OpponentResolves

RenderedWhenALogIsPresent ==
    /\ ~PlayerResolves =>
         /\ ~last_15_df.some
         /\ ~matchup_df.some
         /\ ~rendered
    /\ rendered <=> (last_15_df.some \/ matchup_df.some)

C8_ThreePanelsAlways ==
    pc = "done" =>
        /\ (PlayerResolves /\ OpponentNotFound) =>
             /\ rendered
             /\ Len(Last15Traces) = 3
             /\ Len(PRATraces) = 0
        /\ RenderedWhenALogIsPresent

(***************************************************************************)
(* C8, amended: every run of the script reaches its end; if the player     *)
(* resolves but the opponent team name does not, the figure is rendered    *)
(* without the PRA bars, and with the three last-games bar series exactly  *)
(* when the fetched last-games log has a record (with none of them when    *)
(* it is empty); if the player does not resolve, both logs are None and no *)
(* figure is rendered; the figure is rendered exactly when one of the two  *)
(* logs is not None.                                                       *)
(***************************************************************************)
C8_ScriptEnds ==
    /\ <>(pc = "done")
    /\ [](pc = "done" =>
            /\ (PlayerResolves /\ OpponentNotFound) =>
                 /\ rendered
                 /\ Len(fetched) = 1
                 /\ Len(Last15Traces) = IF fetched[1] # <<>> THEN 3 ELSE 0
                 /\ Len(PRATraces) = 0
            /\ RenderedWhenALogIsPresent)

\* The player is found, the opponent typed is not: the figure is rendered
\* with the three last-games series alone.
C8_Witness ==
    /\ pc = "done"
    /\ PlayerResolves
    /\ OpponentNotFound
    /\ warnings = << Warning("team", team_name) >>
    /\ ~matchup_df.some
    /\ rendered
    /\ Len(traces) = 3

(***************************************************************************)
(* C10: called for a resolvable player without a team name, get_game_logs  *)
(* issues one fetch and returns the first min(last_n_games, number of      *)
(* fetched records) records of the result, in the fetched order, nothing   *)
(* filtered out; the script calls it with last_n_games = 15, so the        *)
(* last-games log never has more than 15 records.                          *)
(***************************************************************************)
C10_LastN ==
    /\ (pc = ret /\ pc \in { "L143r", "done" } /\ PlayerResolves /\ ~TeamGiven) =>
         /\ requests = << Request(Entry(players, player_name).id, NoneStr) >>
         /\ Len(fetched) = 1
         /\ retval.some
         /\ Len(retval.val) = IF arg_last_n < Len(fetched[1])
                              THEN arg_last_n ELSE Len(fetched[1])
         /\ \A i \in 1..Len(retval.val) : retval.val[i] = fetched[1][i]
    /\ pc = "L143r" => arg_last_n = 15
    /\ last_15_df.some => Len(last_15_df.val) <= 15

\* More than 15 records were fetched and the first 15 of them are the
\* last-games log.
C10_Witness ==
    /\ pc = "L145"
    /\ Len(fetched) = 1
    /\ Len(fetched[1]) > 15
    /\ last_15_df.some
    /\ Len(last_15_df.val) = 15
    /\ last_15_df.val = SubSeq(fetched[1], 1, 15)

====
